---- MODULE Spec2Model ----
(***************************************************************************)
(* Model of the gantt-zero timeline view (components/GanttChart.tsx, the   *)
(* copy kept as src/unnamed/part_005) and of the page that hosts it        *)
(* (app/page.tsx): date filter, assignee > category > task flattening,     *)
(* collapse state, category filter, chart projection, and the store calls  *)
(* issued by the chart callbacks.                                          *)
(*                                                                         *)
(* Dates.  A date string is a record [kind, day]: kind "null" stands for   *)
(* null / undefined / "", kind "bad" for a string that Date cannot parse,  *)
(* kind "ymd" for a calendar date YYYY-MM-DD numbered by day.  A Date      *)
(* object is [ok, t] with t in hours since the epoch (UTC); ok = FALSE is  *)
(* the null the helpers return.                                            *)
(***************************************************************************)
EXTENDS Integers, Sequences, FiniteSets, TLC

\* ------------------------------------------------------------------ bounds
MaxSteps == 3        \* user interactions explored per behaviour

\* --------------------------------------------------------------- constants
HoursPerDay == 24
DefaultDaysBack == 7
DefaultDaysAhead == 90
TodayDay == 8        \* local calendar day of `new Date()`
TaskDepth == 2       \* depth of root task rows (0 = user, 1 = category)

\* ------------------------------------------------------------ date helpers
NullStr == [kind |-> "null", day |-> 0]
BadStr == [kind |-> "bad", day |-> 0]
Ymd(d) == [kind |-> "ymd", day |-> d]
NoDate == [ok |-> FALSE, t |-> 0]
At(h) == [ok |-> TRUE, t |-> h]

\* `!value` on a string | null
IsEmptyStr(v) == v.kind = "null"

toDate(value) ==
  IF IsEmptyStr(value) THEN NoDate
  ELSE IF value.kind = "ymd" THEN At(value.day * HoursPerDay)
  ELSE NoDate

\* a ?? b on Date | null
Coalesce(a, b) == IF a.ok THEN a ELSE b

\* local calendar date of a Date, in a zone offs hours east of UTC
formatInputDate(d, offs) == Ymd((d.t + offs) \div HoursPerDay)

\* UTC calendar date: d.toISOString().split('T')[0]
toISODate(d) == Ymd(d.t \div HoursPerDay)

rangesIntersect_OpenEnded(start, end, from, to) ==
  IF IsEmptyStr(from) /\ IsEmptyStr(to) THEN TRUE
  ELSE
    LET s == toDate(start)
        e == toDate(end)
        f == IF ~IsEmptyStr(from) THEN toDate(from) ELSE NoDate
        t == IF ~IsEmptyStr(to) THEN toDate(to) ELSE NoDate
    IN  IF ~s.ok /\ ~e.ok THEN TRUE
        ELSE IF f.ok /\ e.ok /\ e.t < f.t THEN FALSE
        ELSE IF t.ok /\ s.ok /\ s.t > t.t THEN FALSE
        ELSE TRUE

rangesIntersect_DropsUndated(start, end, from, to) ==
  IF IsEmptyStr(from) /\ IsEmptyStr(to) THEN TRUE
  ELSE
    LET s == Coalesce(toDate(start), toDate(end))
        e == Coalesce(toDate(end), toDate(start))
        f == IF ~IsEmptyStr(from) THEN toDate(from) ELSE NoDate
        t == IF ~IsEmptyStr(to) THEN toDate(to) ELSE NoDate
    IN  IF ~s.ok /\ ~e.ok THEN FALSE
        ELSE IF f.ok /\ e.t < f.t THEN FALSE
        ELSE IF t.ok /\ s.t > t.t THEN FALSE
        ELSE TRUE

rangesIntersect(start, end, from, to) ==
  IF IsEmptyStr(from) /\ IsEmptyStr(to) THEN TRUE
  ELSE
    LET s == Coalesce(toDate(start), toDate(end))
        e == Coalesce(toDate(end), toDate(start))
    IN  IF ~s.ok /\ ~e.ok THEN TRUE
        ELSE
          LET rStart == Coalesce(s, e)
              rEnd == Coalesce(e, s)
              f == IF ~IsEmptyStr(from) THEN toDate(from) ELSE NoDate
              t == IF ~IsEmptyStr(to) THEN toDate(to) ELSE NoDate
          IN  IF f.ok /\ rEnd.t < f.t THEN FALSE
              ELSE IF t.ok /\ rStart.t > t.t THEN FALSE
              ELSE TRUE

\* ------------------------------------------------------------- task records
\* Strings use "" for null / undefined.
\* status of the rows the tables start with: the one their progress calls for
statusFor(progress) ==
  IF progress = 0 THEN "To Do"
  ELSE IF progress = 100 THEN "Done" ELSE "In Progress"

Task(id, assignee, workType, parent, start, end, progress) ==
  [id |-> id, name |-> id, assignee |-> assignee, work_type |-> workType,
   parent_id |-> parent, start_date |-> start, end_date |-> end,
   progress |-> progress, status |-> statusFor(progress)]

NoTask == Task("", "", "", "", NullStr, NullStr, 0)

\* useState('To Do'), useState(0)
NoForm == [status |-> "To Do", progress |-> 0]

\* Contents the tasks table may have when the page loads, in the order the
\* select returns them (start_date ascending, rows without a start last).
ScenarioStore ==
  << Task("1", "A", "routine", "", Ymd(1), Ymd(5), 0),
     Task("2", "A", "strategic", "", Ymd(32), Ymd(34), 50) >>

HierarchyStore ==
  << Task("6", "", "weird", "3", Ymd(1), Ymd(12), 0),
     Task("3", "A", "", "", Ymd(2), Ymd(40), 0),
     Task("4", "A", "routine", "3", Ymd(3), Ymd(4), 100),
     Task("5", "A", "routine", "4", Ymd(3), NullStr, 0) >>

InitialStores == { <<>>, ScenarioStore, HierarchyStore }

\* ---------------------------------------------------------------- tree rows
WORK_TYPES ==
  << "routine", "strategic", "process_improvement", "self_development",
     "other" >>

SeqToSet(s) == { s[i] : i \in 1..Len(s) }
Parseable(v) == v.kind = "ymd"
Range(q) == { q[i] : i \in 1..Len(q) }

normalizeWorkType(raw) ==
  LET v == IF raw = "" THEN "routine" ELSE raw
  IN  IF v \in SeqToSet(WORK_TYPES) THEN v ELSE "other"

Row(kind, id, depth, label, userKey, workType, task) ==
  [kind |-> kind, id |-> id, depth |-> depth, label |-> label,
   userKey |-> userKey, workType |-> workType, task |-> task]

RECURSIVE ConcatAll(_)
ConcatAll(ss) == IF ss = <<>> THEN <<>> ELSE Head(ss) \o ConcatAll(Tail(ss))

dateFilteredTasks_KeepsAll(ts, from, to) == ts

dateFilteredTasks(ts, from, to) ==
  SelectSeq(ts, LAMBDA t : rangesIntersect(t.start_date, t.end_date, from, to))

\* ids of the tasks the callbacks can resolve (taskById[id] is defined)
taskById(dft) == { dft[i].id : i \in { j \in 1..Len(dft) : dft[j].id # "" } }

taskHasChildren(dft) ==
  { dft[i].parent_id : i \in { j \in 1..Len(dft) : dft[j].parent_id # "" } }

AssigneeKey(t) == IF t.assignee = "" THEN "__unassigned__" ELSE t.assignee
UserLabel(key) == IF key = "__unassigned__" THEN "Unassigned" ELSE key

\* Object.keys(byUser): the keys in order of first insertion
byUserKeys(ts) ==
  LET firsts == { i \in 1..Len(ts) :
                    \A j \in 1..(i - 1) : AssigneeKey(ts[j]) # AssigneeKey(ts[i]) }
  IN  [ p \in 1..Cardinality(firsts) |->
          AssigneeKey(ts[CHOOSE i \in firsts :
                           Cardinality({ j \in firsts : j < i }) = p - 1]) ]

\* String.localeCompare on the labels that occur
LabelOrder == << "A", "Unassigned", "Zed" >>
LabelRank(label) == CHOOSE i \in 1..Len(LabelOrder) : LabelOrder[i] = label
localeCompare(a, b) == LabelRank(a) - LabelRank(b)

sortedUserKeys_Unsorted(keys) == keys

\* Array.sort (stable) by label: key i comes after the keys that compare
\* lower and after the earlier keys that compare equal
sortedUserKeys(keys) ==
  LET cmp(i, j) == localeCompare(UserLabel(keys[i]), UserLabel(keys[j]))
      pos(i) == 1 + Cardinality({ j \in 1..Len(keys) :
                       cmp(j, i) < 0 \/ (cmp(j, i) = 0 /\ j < i) })
  IN  [ p \in 1..Len(keys) |-> keys[CHOOSE i \in 1..Len(keys) : pos(i) = p] ]

ParentKey(t) == IF t.parent_id = "" THEN "root" ELSE t.parent_id

RECURSIVE walkTasks_IgnoresCollapsedTask(_, _, _, _, _)
walkTasks_IgnoresCollapsedTask(catTasks, parentKey, depth, parentHidden, collapsed) ==
  LET list == SelectSeq(catTasks, LAMBDA t : ParentKey(t) = parentKey)
      sub(t) == (IF parentHidden THEN <<>>
                 ELSE << Row("task", t.id, depth, t.name, "", "", t) >>)
                \o walkTasks_IgnoresCollapsedTask(catTasks, t.id, depth + 1,
                                                  parentHidden, collapsed)
  IN  ConcatAll([ i \in 1..Len(list) |-> sub(list[i]) ])

RECURSIVE walkTasks(_, _, _, _, _)
walkTasks(catTasks, parentKey, depth, parentHidden, collapsed) ==
  LET list == SelectSeq(catTasks, LAMBDA t : ParentKey(t) = parentKey)
      sub(t) ==
        LET isCollapsed == t.id \in collapsed
            nextHidden == parentHidden \/ isCollapsed
        IN  (IF parentHidden THEN <<>>
             ELSE << Row("task", t.id, depth, t.name, "", "", t) >>)
            \o walkTasks(catTasks, t.id, depth + 1, nextHidden, collapsed)
  IN  ConcatAll([ i \in 1..Len(list) |-> sub(list[i]) ])

userRowId_NoKey(userKey) == "user:"

userRowId(userKey) == "user:" \o userKey
catRowId(userKey, wt) == "cat:" \o userKey \o ":" \o wt

categoryRows_IgnoresFilter(userTasks, userKey, wt, collapsed, filter) ==
  LET catTasksAll ==
        SelectSeq(userTasks, LAMBDA t : normalizeWorkType(t.work_type) = wt)
      catCollapsed == catRowId(userKey, wt) \in collapsed
  IN  (IF Len(catTasksAll) > 0
       THEN << Row("category", catRowId(userKey, wt), 1, wt, userKey, wt,
                   NoTask) >>
       ELSE <<>>)
      \o (IF Len(catTasksAll) = 0 \/ catCollapsed THEN <<>>
          ELSE walkTasks(catTasksAll, "root", TaskDepth, FALSE, collapsed))

\* rows of one work type under one (expanded) user
categoryRows(userTasks, userKey, wt, collapsed, filter) ==
  IF wt \notin SeqToSet(filter) THEN <<>>
  ELSE
    LET catTasksAll ==
          SelectSeq(userTasks, LAMBDA t : normalizeWorkType(t.work_type) = wt)
        catCollapsed == catRowId(userKey, wt) \in collapsed
    IN  (IF Len(catTasksAll) > 0
         THEN << Row("category", catRowId(userKey, wt), 1, wt, userKey, wt,
                     NoTask) >>
         ELSE <<>>)
        \o (IF Len(catTasksAll) = 0 \/ catCollapsed THEN <<>>
            ELSE walkTasks(catTasksAll, "root", TaskDepth, FALSE, collapsed))

userRows(dft, userKey, collapsed, filter) ==
  LET userTasks == SelectSeq(dft, LAMBDA t : AssigneeKey(t) = userKey)
      userCollapsed == userRowId(userKey) \in collapsed
  IN  << Row("user", userRowId(userKey), 0, UserLabel(userKey), userKey, "",
             NoTask) >>
      \o (IF userCollapsed THEN <<>>
          ELSE ConcatAll([ i \in 1..Len(WORK_TYPES) |->
                 categoryRows(userTasks, userKey, WORK_TYPES[i], collapsed,
                              filter) ]))

treeRowsOf(dft, collapsed, filter) ==
  IF Len(dft) = 0 THEN <<>>
  ELSE LET keys == sortedUserKeys(byUserKeys(dft))
       IN  ConcatAll([ i \in 1..Len(keys) |->
             userRows(dft, keys[i], collapsed, filter) ])

\* ---------------------------------------------------------- chart entries
TimeZones == { -5, 7 }     \* hours east of UTC the browser may run in

\* `new Date()` in a zone offs hours east of UTC: noon of TodayDay, local
Now(offs) == At(TodayDay * HoursPerDay + 12 - offs)

\* d.setDate(d.getDate() + n)
addDays(d, n) == At(d.t + n * HoursPerDay)

Entry(id, name, start, end, progress, cls) ==
  [id |-> id, name |-> name, start |-> start, end |-> end,
   progress |-> progress, custom_class |-> cls]

ganttTask_DropsHeaders(row, from, to, offs) ==
  LET t == row.task
  IN  IF row.kind = "task"
      THEN << Entry(row.id, row.label, t.start_date, t.end_date, t.progress,
                    "status") >>
      ELSE <<>>

\* the chart entry built for one tree row (a one-element sequence)
ganttTask(row, from, to, offs) ==
  IF row.kind = "task"
  THEN
    LET t == row.task
        fromD == IF ~IsEmptyStr(from) THEN toDate(from) ELSE NoDate
        toD == IF ~IsEmptyStr(to) THEN toDate(to) ELSE NoDate
        origStart == toDate(t.start_date)
        origEnd == toDate(t.end_date)
        displayStart ==
          IF fromD.ok /\ origStart.ok /\ origStart.t < fromD.t
          THEN fromD ELSE origStart
        displayEnd ==
          IF toD.ok /\ origEnd.ok /\ origEnd.t > toD.t THEN toD ELSE origEnd
        startStr == IF displayStart.ok THEN formatInputDate(displayStart, offs)
                    ELSE t.start_date
        endStr == IF displayEnd.ok THEN formatInputDate(displayEnd, offs)
                  ELSE t.end_date
    IN  << Entry(row.id, row.label, startStr, endStr, t.progress, "status") >>
  ELSE
    LET baseDate == IF ~IsEmptyStr(from) /\ toDate(from).ok THEN toDate(from)
                    ELSE Now(offs)
        customClass == IF row.kind = "user" THEN "row-user-header"
                       ELSE "row-category-header"
    IN  << Entry(row.id, row.label, formatInputDate(baseDate, offs),
                 formatInputDate(addDays(baseDate, 1), offs), 0,
                 customClass) >>

\* treeRows.map(...) of the chart build effect
ganttTasksOf(rows, from, to, offs) ==
  ConcatAll([ i \in 1..Len(rows) |-> ganttTask(rows[i], from, to, offs) ])

chartBuild_NoEmptyGuard(rows, from, to, offs) ==
  [built |-> TRUE, entries |-> ganttTasksOf(rows, from, to, offs)]

\* the chart build effect: nothing is instantiated for an empty row list
chartBuild(rows, from, to, offs) ==
  IF Len(rows) = 0 THEN [built |-> FALSE, entries |-> <<>>]
  ELSE [built |-> TRUE, entries |-> ganttTasksOf(rows, from, to, offs)]

\* The dates the chart library gives an entry: a missing end is two days
\* after the start, a missing start two days before the end, both missing
\* today and two days later; the end day counts in full.
entryStartDay(e) ==
  IF Parseable(e.start) THEN e.start.day
  ELSE IF Parseable(e.end) THEN e.end.day - 2 ELSE TodayDay
entryEndDay(e) ==
  1 + (IF Parseable(e.end) THEN e.end.day
       ELSE IF Parseable(e.start) THEN e.start.day + 2 ELSE TodayDay + 2)

\* gantt.gantt_start and gantt.gantt_end in the Week view: a month before
\* the first start and a month after the last end
ChartPadDays == 30
gantt_start(entries) ==
  (CHOOSE d \in { entryStartDay(e) : e \in Range(entries) } :
     \A e \in Range(entries) : d <= entryStartDay(e)) - ChartPadDays
gantt_end(entries) ==
  (CHOOSE d \in { entryEndDay(e) : e \in Range(entries) } :
     \A e \in Range(entries) : d >= entryEndDay(e)) + ChartPadDays

\* if (svgEl && ganttStart && ganttEnd): a chart without entries has no bounds
todayInRange(entries) ==
  /\ Len(entries) > 0
  /\ TodayDay >= gantt_start(entries) /\ TodayDay <= gantt_end(entries)

todayLine_KeepsOld(prev, chart) ==
  IF ~chart.built THEN prev
  ELSE prev + (IF todayInRange(chart.entries) THEN 1 ELSE 0)

\* the lines in the chart after the build effect: the container is emptied,
\* and after a build the old lines are removed and one is drawn when today
\* is within the bounds of the chart
todayLine(prev, chart) ==
  LET emptied == 0
      removed == 0
  IN  IF ~chart.built THEN emptied
      ELSE removed + (IF todayInRange(chart.entries) THEN 1 ELSE 0)

\* the rows the tree panel renders
treePanelOf(rows, dft, collapsed) ==
  [ i \in 1..Len(rows) |->
      [id |-> rows[i].id, kind |-> rows[i].kind, depth |-> rows[i].depth,
       isCollapsed |-> rows[i].id \in collapsed,
       hasChildren |-> IF rows[i].kind \in {"user", "category"} THEN TRUE
                       ELSE rows[i].id \in taskHasChildren(dft)] ]

Ids(rows) == [ i \in 1..Len(rows) |-> rows[i].id ]
categoryIds(rows) ==
  { rows[i].id : i \in { j \in 1..Len(rows) : rows[j].kind = "category" } }

\* ------------------------------------------------- component state machine
defaultCollapse_IgnoresLatch(rows, collapsed, latch) ==
  IF Len(rows) = 0 THEN [collapsed |-> collapsed, latch |-> latch]
  ELSE [collapsed |-> collapsed \cup categoryIds(rows), latch |-> TRUE]

\* the default-collapse effect, run against one build of treeRows
defaultCollapse(rows, collapsed, latch) ==
  IF latch THEN [collapsed |-> collapsed, latch |-> latch]
  ELSE IF Len(rows) = 0 THEN [collapsed |-> collapsed, latch |-> latch]
  ELSE [collapsed |-> collapsed \cup categoryIds(rows), latch |-> TRUE]

\* One render of the component followed by its effects, repeated until no
\* effect changes state: the memoised rows and the collapse latch.
Settle(ts, collapsed, filter, from, to, latch) ==
  LET dft == dateFilteredTasks(ts, from, to)
      rows0 == treeRowsOf(dft, collapsed, filter)
      eff == defaultCollapse(rows0, collapsed, latch)
  IN  [collapsed |-> eff.collapsed, latch |-> eff.latch,
       rows |-> treeRowsOf(dft, eff.collapsed, filter)]

defaultFrom == Ymd(TodayDay - DefaultDaysBack)
defaultTo == Ymd(TodayDay + DefaultDaysAhead)

toggleCollapse_ForgetsOthers(prev, id) ==
  IF id \in prev THEN prev \ {id} ELSE {id}

toggleCollapse(prev, id) ==
  IF id \in prev THEN prev \ {id} ELSE prev \cup {id}

handleToggleWorkType_Resets(prev, value, checked) ==
  IF checked THEN WORK_TYPES
  ELSE SelectSeq(prev, LAMBDA v : v # value)

handleToggleWorkType(prev, value, checked) ==
  IF checked
  THEN IF value \in SeqToSet(prev) THEN prev ELSE Append(prev, value)
  ELSE SelectSeq(prev, LAMBDA v : v # value)

\* ------------------------------------------------------------ scroll sync
\* Offsets are counted in rows. The style sheet that sizes the two panels is
\* not part of the sources at hand: both panels are taken to show
\* ViewportRows rows and to hold one row slot per tree row, as the aligned
\* rows of the two panels require.
ViewportRows == 2

Min(a, b) == IF a < b THEN a ELSE b
Max(a, b) == IF a > b THEN a ELSE b

\* largest scrollTop of the tree panel / of the chart body
treeScrollMax(rows) == Max(0, Len(rows) - ViewportRows)
bodyScrollMax(rows) == Max(0, Len(rows) - ViewportRows)

\* el.scrollTop = v: the browser clamps the offset to the element's range
setScrollTop(v, max) == Max(0, Min(v, max))

syncFromBody_KeepsTree(treeTop, bodyTop, treeMax) == treeTop

\* scroll listener of the chart body; yields the tree panel's new offset
syncFromBody(treeTop, bodyTop, treeMax) ==
  IF treeTop # bodyTop THEN setScrollTop(bodyTop, treeMax) ELSE treeTop

\* wheel listener of the tree panel (default prevented); yields the chart
\* body's new offset
onWheelTree(bodyTop, deltaY, bodyMax) == setScrollTop(bodyTop + deltaY, bodyMax)

\* ------------------------------------------------------------------- state
VARIABLES
  tz,                      \* zone offset of the browser, hours east of UTC
  store,                   \* rows of the tasks table
  tasks,                   \* page state `tasks`
  loading,                 \* page state `loading`
  filterAssignee,          \* page state `filterAssignee` ("" = null)
  calls,                   \* every row-store call issued, with its phase
  callbacks,               \* every chart callback invocation
  role,                    \* currentProfile.role
  isModalOpen,             \* page state `isModalOpen`
  selectedTask,            \* page state `selectedTask` (NoTask = null)
  alerts,                  \* messages shown to the user with alert()
  form,                    \* modal state `status` and `progress`
  collapsedParents, workTypeFilter, viewFrom, viewTo,
  initialCollapseApplied,  \* initialCollapseAppliedRef.current
  treeRows,                \* memoised rows of the last render
  ganttTasks,              \* entries handed to the chart library
  ganttBuilt,              \* a Gantt instance was created by the last build
  treePanel,               \* rows rendered in the tree panel
  treeEmptyMsg,            \* "No tasks yet. Create one to see hierarchy."
  chartEmptyMsg,           \* "No tasks scheduled yet"
  todayLines,              \* .today-highlight-line elements in the chart
  treeScrollTop,           \* scrollTop of the tree panel, in rows
  bodyScrollTop,           \* scrollTop of the chart body, in rows
  steps,                   \* user interactions so far
  fIn, fOut,               \* arguments / result of a rangesIntersect call
  walk                     \* one run of walkTasks over a bucket, step by step

modalVars == << role, isModalOpen, selectedTask, alerts, form >>
pageVars == << store, tasks, loading, filterAssignee, calls, callbacks,
               modalVars >>
renderVars == << collapsedParents, workTypeFilter, viewFrom, viewTo,
                 initialCollapseApplied, treeRows, ganttTasks, ganttBuilt,
                 treePanel, treeEmptyMsg, chartEmptyMsg,
                 todayLines >>
scrollVars == << treeScrollTop, bodyScrollTop >>
viewVars == << renderVars, scrollVars >>
filterVars == << fIn, fOut, walk >>
vars == << tz, pageVars, viewVars, steps, filterVars >>

\* tasks prop of the chart: fullyFilteredTasks of the page
fullyFilteredTasks(ts, assignee) ==
  SelectSeq(ts, LAMBDA t : ~(assignee # "" /\ t.assignee # assignee))

mounted == ~loading

MaxCallbacks == 1    \* chart callbacks (drags, progress changes) explored

hasAnyTaskRow(rows) == \E i \in 1..Len(rows) : rows[i].kind = "task"

\* the component's state after a render with the given state has settled
\* (st is bound by \E so that the render is computed once per step)
Show(ts, collapsed, filter, from, to, latch) ==
  \E st \in { Settle(ts, collapsed, filter, from, to, latch) } :
  \E dft \in { dateFilteredTasks(ts, from, to) } :
  \E chart \in { chartBuild(st.rows, from, to, tz) } :
      /\ collapsedParents' = st.collapsed
      /\ workTypeFilter' = filter
      /\ viewFrom' = from
      /\ viewTo' = to
      /\ initialCollapseApplied' = st.latch
      /\ treeRows' = st.rows
      /\ ganttTasks' = chart.entries
      /\ ganttBuilt' = chart.built
      /\ treePanel' = treePanelOf(st.rows, dft, st.collapsed)
      /\ treeEmptyMsg' = (Len(st.rows) = 0)
      /\ chartEmptyMsg' = ~hasAnyTaskRow(st.rows)
      /\ todayLines' = todayLine(todayLines, chart)
      /\ bodyScrollTop' = setScrollTop(bodyScrollTop, bodyScrollMax(st.rows))
      /\ treeScrollTop' =
           LET kept == setScrollTop(treeScrollTop, treeScrollMax(st.rows))
           IN  IF bodyScrollTop' # bodyScrollTop
               THEN syncFromBody(kept, bodyScrollTop',
                                 treeScrollMax(st.rows))
               ELSE kept

\* First render (no window yet) and its effects: the default window is set
\* and the default collapse runs against the rows of that first render.
Mount(ts) ==
  LET first == Settle(ts, {}, WORK_TYPES, NullStr, NullStr, FALSE)
  IN  Show(ts, first.collapsed, WORK_TYPES, defaultFrom, defaultTo,
           first.latch)

\* the page renders "Loading tasks..." instead of the chart
Unmount ==
  /\ collapsedParents' = {}
  /\ workTypeFilter' = WORK_TYPES
  /\ viewFrom' = NullStr
  /\ viewTo' = NullStr
  /\ initialCollapseApplied' = FALSE
  /\ treeRows' = <<>>
  /\ ganttTasks' = <<>>
  /\ ganttBuilt' = FALSE
  /\ treePanel' = <<>>
  /\ treeEmptyMsg' = FALSE
  /\ chartEmptyMsg' = FALSE
  /\ todayLines' = 0
  /\ treeScrollTop' = 0
  /\ bodyScrollTop' = 0

tasksProp == fullyFilteredTasks(tasks, filterAssignee)

\* ------------------------------------------------------------ view actions
\* ids whose collapse flag the user can flip: header rows (row click, caret,
\* click on the header's bar) and task rows that show a caret
Toggleable ==
  { treePanel[i].id : i \in { j \in 1..Len(treePanel) :
                               treePanel[j].hasChildren } }

ToggleCollapse(id) ==
  /\ mounted /\ steps < MaxSteps
  /\ id \in Toggleable
  /\ Show(tasksProp, toggleCollapse(collapsedParents, id), workTypeFilter,
          viewFrom, viewTo, initialCollapseApplied)
  /\ steps' = steps + 1
  /\ UNCHANGED << tz, pageVars, filterVars >>

\* the checkbox of work type value is clicked
ToggleWorkType(value) ==
  /\ mounted /\ steps < MaxSteps
  /\ Show(tasksProp, collapsedParents,
          handleToggleWorkType(workTypeFilter, value,
                               value \notin SeqToSet(workTypeFilter)),
          viewFrom, viewTo, initialCollapseApplied)
  /\ steps' = steps + 1
  /\ UNCHANGED << tz, pageVars, filterVars >>

PickerDates == { NullStr, Ymd(10), Ymd(33) }

SetViewFrom(v) ==
  /\ mounted /\ steps < MaxSteps
  /\ v # viewFrom
  /\ Show(tasksProp, collapsedParents, workTypeFilter, v, viewTo,
          initialCollapseApplied)
  /\ steps' = steps + 1
  /\ UNCHANGED << tz, pageVars, filterVars >>

SetViewTo(v) ==
  /\ mounted /\ steps < MaxSteps
  /\ v # viewTo
  /\ Show(tasksProp, collapsedParents, workTypeFilter, viewFrom, v,
          initialCollapseApplied)
  /\ steps' = steps + 1
  /\ UNCHANGED << tz, pageVars, filterVars >>

handleTodayRange ==
  /\ mounted /\ steps < MaxSteps
  /\ << viewFrom, viewTo >> # << defaultFrom, defaultTo >>
  /\ Show(tasksProp, collapsedParents, workTypeFilter, defaultFrom, defaultTo,
          initialCollapseApplied)
  /\ steps' = steps + 1
  /\ UNCHANGED << tz, pageVars, filterVars >>

\* ------------------------------------------------------------ page actions
Assignees == { "", "Zed" }

SetFilterAssignee(a) ==
  /\ steps < MaxSteps
  /\ a # filterAssignee
  /\ filterAssignee' = a
  /\ IF mounted
     THEN Show(fullyFilteredTasks(tasks, a), collapsedParents, workTypeFilter,
               viewFrom, viewTo, initialCollapseApplied)
     ELSE UNCHANGED viewVars
  /\ steps' = steps + 1
  /\ UNCHANGED << tz, store, tasks, loading, calls, callbacks, modalVars, filterVars >>

\* ------------------------------------------------------------- store calls
Call(op, id, fields, start, end, progress, by) ==
  [op |-> op, id |-> id, fields |-> fields, start_date |-> start,
   end_date |-> end, progress |-> progress, by |-> by, phase |-> "sent",
   err |-> FALSE, data |-> <<>>, row |-> NoTask, alerted |-> FALSE]

\* supabase.from('tasks').select('*').order('start_date', {ascending: true})
SelectCall(by) == Call("select", "", "", NullStr, NullStr, 0, by)

\* supabase.from('tasks').update({...}).eq('id', id)
UpdateDatesCall(id, start, end, by) ==
  Call("update", id, "dates", start, end, 0, by)
UpdateProgressCall(id, progress, by) ==
  Call("update", id, "progress", NullStr, NullStr, progress, by)

\* supabase.from('tasks').update({...rest, assignee}).eq('id', id)
ModalUpdateCall(id, row, by) ==
  [Call("update", id, "all", row.start_date, row.end_date, row.progress, by)
     EXCEPT !.row = row]
\* supabase.from('tasks').insert(insertPayload)
InsertCall(row, by) ==
  [Call("insert", "", "all", row.start_date, row.end_date, row.progress, by)
     EXCEPT !.row = row]
\* supabase.from('tasks').delete().eq('id', id)
DeleteCall(id, by) == Call("delete", id, "", NullStr, NullStr, 0, by)

\* sort key of the select: rows without a start date come last
StartKey(t) == IF t.start_date.kind = "ymd" THEN t.start_date.day ELSE 1000000

\* ORDER BY start_date ASC; rows with equal keys keep their table order
orderByStart(rows) ==
  LET pos(i) == 1 + Cardinality({ j \in 1..Len(rows) :
                       \/ StartKey(rows[j]) < StartKey(rows[i])
                       \/ StartKey(rows[j]) = StartKey(rows[i]) /\ j < i })
  IN  [ p \in 1..Len(rows) |-> rows[CHOOSE i \in 1..Len(rows) : pos(i) = p] ]

applyUpdate(rows, c) ==
  [ i \in 1..Len(rows) |->
      IF rows[i].id # c.id THEN rows[i]
      ELSE IF c.fields = "dates"
      THEN [rows[i] EXCEPT !.start_date = c.start_date,
                           !.end_date = c.end_date]
      ELSE IF c.fields = "progress"
      THEN [rows[i] EXCEPT !.progress = c.progress]
      ELSE [c.row EXCEPT !.id = rows[i].id] ]

\* ids the table gives to inserted rows
NewIds == << "7", "8", "9", "10" >>
newId(rows) ==
  NewIds[CHOOSE k \in 1..Len(NewIds) :
           /\ \A i \in 1..Len(rows) : rows[i].id # NewIds[k]
           /\ \A j \in 1..(k - 1) : \E i \in 1..Len(rows) :
                                       rows[i].id = NewIds[j]]

\* the table after the store has executed call c
storeAfter(rows, c) ==
  IF c.op = "update" THEN applyUpdate(rows, c)
  ELSE IF c.op = "insert" THEN Append(rows, [c.row EXCEPT !.id = newId(rows)])
  ELSE IF c.op = "delete" THEN SelectSeq(rows, LAMBDA t : t.id # c.id)
  ELSE rows

\* loadTasks up to its await: setLoading(true) and the select is sent
loadTasks(by, log) ==
  /\ loading' = TRUE
  /\ calls' = Append(log, SelectCall(by))
  /\ Unmount

DragInstants == { At(65), At(290) }
ProgressValues == { 0, 100 }

\* The instants the chart library hands to on_date_change for an edge of a
\* bar the user did not move: it reads the entry's YYYY-MM-DD strings as
\* local dates, the start as that day's midnight and the end as the last
\* hour of that day.
entryOf(id) == CHOOSE e \in SeqToSet(ganttTasks) : e.id = id
barStart(e, offs) == At(e.start.day * HoursPerDay - offs)
barEnd(e, offs) == At((e.end.day + 1) * HoursPerDay - offs - 1)

\* kind of the tree row an entry was built from
rowKindOf(entry) ==
  (CHOOSE r \in SeqToSet(treeRows) : r.id = entry).kind

Callback(kind, entry, start, end, progress) ==
  [kind |-> kind, entry |-> entry, rowKind |-> rowKindOf(entry),
   start |-> start, end |-> end, progress |-> progress]

EntryIds == { ganttTasks[i].id : i \in 1..Len(ganttTasks) }
knownTaskIds == taskById(dateFilteredTasks(tasksProp, viewFrom, viewTo))

on_date_change_UpdatesAnyEntry(entry, start, end) ==
  /\ mounted /\ steps < MaxSteps /\ Len(callbacks) < MaxCallbacks
  /\ entry \in EntryIds
  /\ callbacks' = Append(callbacks,
       Callback("date", entry, start, end, 0))
  /\ calls' = Append(calls, UpdateDatesCall(entry, toISODate(start),
                                            toISODate(end),
                                            Len(callbacks) + 1))
  /\ steps' = steps + 1
  /\ UNCHANGED << tz, store, tasks, loading, filterAssignee, viewVars,
                  modalVars, filterVars >>

\* on_date_change up to its await
on_date_change(entry, start, end) ==
  /\ mounted /\ steps < MaxSteps /\ Len(callbacks) < MaxCallbacks
  /\ entry \in EntryIds
  /\ callbacks' = Append(callbacks,
       Callback("date", entry, start, end, 0))
  /\ calls' = IF entry \in knownTaskIds
              THEN Append(calls, UpdateDatesCall(entry, toISODate(start),
                                                 toISODate(end),
                                                 Len(callbacks) + 1))
              ELSE calls
  /\ steps' = steps + 1
  /\ UNCHANGED << tz, store, tasks, loading, filterAssignee, viewVars,
                  modalVars, filterVars >>

\* on_progress_change up to its await
on_progress_change(entry, progress) ==
  /\ mounted /\ steps < MaxSteps /\ Len(callbacks) < MaxCallbacks
  /\ entry \in EntryIds
  /\ callbacks' = Append(callbacks,
       Callback("progress", entry, NoDate, NoDate, progress))
  /\ calls' = IF entry \in knownTaskIds
              THEN Append(calls, UpdateProgressCall(entry, progress,
                                                    Len(callbacks) + 1))
              ELSE calls
  /\ steps' = steps + 1
  /\ UNCHANGED << tz, store, tasks, loading, filterAssignee, viewVars,
                  modalVars, filterVars >>

\* the store executes call i and answers with a result or an error
StoreAnswers(i, err) ==
  /\ i \in 1..Len(calls)
  /\ calls[i].phase = "sent"
  /\ calls' = [calls EXCEPT ![i].phase = "answered", ![i].err = err,
                 ![i].data = IF calls[i].op = "select" /\ ~err
                             THEN orderByStart(store) ELSE <<>>]
  /\ store' = IF err THEN store ELSE storeAfter(store, calls[i])
  /\ UNCHANGED << tz, tasks, loading, filterAssignee, callbacks, viewVars,
                  steps, modalVars, filterVars >>

updateResumes_NoReloadOnError(i) ==
  /\ i \in 1..Len(calls)
  /\ calls[i].phase = "answered" /\ calls[i].op = "update"
  /\ calls[i].by > 0
  /\ IF calls[i].err
     THEN /\ calls' = [calls EXCEPT ![i].phase = "done"]
          /\ UNCHANGED << loading, viewVars >>
     ELSE loadTasks(calls[i].by, [calls EXCEPT ![i].phase = "done"])
  /\ UNCHANGED << tz, store, tasks, filterAssignee, callbacks, steps,
                  modalVars, filterVars >>

\* the awaited update returns: the callback logs an error, if any, and
\* calls onTaskUpdate (= loadTasks of the page)
updateResumes(i) ==
  /\ i \in 1..Len(calls)
  /\ calls[i].phase = "answered" /\ calls[i].op = "update"
  /\ calls[i].by > 0
  /\ loadTasks(calls[i].by, [calls EXCEPT ![i].phase = "done"])
  /\ UNCHANGED << tz, store, tasks, filterAssignee, callbacks, steps,
                  modalVars, filterVars >>

\* a reload that drops its result when a reload issued after it has
\* already been applied
loadTasksResumes_DropsSuperseded(i) ==
  /\ i \in 1..Len(calls)
  /\ calls[i].phase = "answered" /\ calls[i].op = "select"
  /\ calls' = [calls EXCEPT ![i].phase = "done"]
  /\ tasks' = IF \/ calls[i].err
                 \/ \E j \in (i + 1)..Len(calls) :
                      calls[j].op = "select" /\ calls[j].phase = "done"
              THEN tasks ELSE calls[i].data
  /\ loading' = FALSE
  /\ IF loading
     THEN Mount(fullyFilteredTasks(tasks', filterAssignee))
     ELSE Show(fullyFilteredTasks(tasks', filterAssignee), collapsedParents,
               workTypeFilter, viewFrom, viewTo, initialCollapseApplied)
  /\ UNCHANGED << tz, store, filterAssignee, callbacks, steps, modalVars,
                  filterVars >>

\* the awaited select of loadTasks returns
loadTasksResumes(i) ==
  /\ i \in 1..Len(calls)
  /\ calls[i].phase = "answered" /\ calls[i].op = "select"
  /\ calls' = [calls EXCEPT ![i].phase = "done"]
  /\ tasks' = IF calls[i].err THEN tasks ELSE calls[i].data
  /\ loading' = FALSE
  /\ IF loading
     THEN Mount(fullyFilteredTasks(tasks', filterAssignee))
     ELSE Show(fullyFilteredTasks(tasks', filterAssignee), collapsedParents,
               workTypeFilter, viewFrom, viewTo, initialCollapseApplied)
  /\ UNCHANGED << tz, store, filterAssignee, callbacks, steps, modalVars, filterVars >>

\* -------------------------------------------------------------- task modal
Statuses ==
  { "To Do", "In Progress", "Blocked", "In problem Need Help", "Done" }
ProgressInputs == { 0, 50, 100 }

\* the form when the modal opens: the task's values, or the create defaults
formOf(task) ==
  IF task # NoTask THEN [status |-> task.status, progress |-> task.progress]
  ELSE NoForm

handleProgressChange_Uncoupled(f, value) == [f EXCEPT !.progress = value]

handleProgressChange(f, value) ==
  [progress |-> value,
   status |-> IF f.status \in { "Blocked", "In problem Need Help" }
              THEN f.status
              ELSE IF value = 0 THEN "To Do"
              ELSE IF value = 100 THEN "Done"
              ELSE "In Progress"]

handleStatusChange_Uncoupled(f, newStatus) == [f EXCEPT !.status = newStatus]

handleStatusChange(f, newStatus) ==
  [status |-> newStatus,
   progress |-> IF newStatus = "Done" THEN 100
                ELSE IF newStatus = "To Do" THEN 0
                ELSE f.progress]

Roles == { "user", "manager" }
canEditTasks == role # "manager"

CurrentUserName == "A"          \* display_name of the current profile
FormEndDates == { NullStr, Ymd(12) }
FormWorkTypes == { "", "routine" }

\* the form of the modal at submit: the selected task with the end date the
\* user picked, or the create defaults with a typed name and a chosen work
\* type
editForm(task, end) == [task EXCEPT !.end_date = end]
createForm(workType, end, offs) ==
  [Task("", CurrentUserName, workType, "", formatInputDate(Now(offs), offs),
        end, 0) EXCEPT !.name = "new"]

\* the message of the first required-field check of handleSubmit that
\* fails, "" when the form passes
validationMessage(partial) ==
  IF partial.name = "" THEN "Please enter a task name."
  ELSE IF IsEmptyStr(partial.start_date) THEN "Please select a start date."
  ELSE IF partial.work_type = "" THEN "Please select a work type."
  ELSE IF partial.assignee = "" THEN "Please choose an assignee."
  ELSE ""

\* the follow-up calls of one user action carry the same origin
ActionId == 0 - (Len(calls) + 1)

handleNewTask ==
  /\ steps < MaxSteps
  /\ IF ~canEditTasks
     THEN /\ alerts' = alerts \cup { "You currently have view-only access." }
          /\ UNCHANGED << isModalOpen, selectedTask, form >>
     ELSE /\ selectedTask' = NoTask
          /\ isModalOpen' = TRUE
          /\ form' = IF isModalOpen /\ selectedTask = NoTask THEN form
                     ELSE formOf(NoTask)
          /\ UNCHANGED alerts
  /\ steps' = steps + 1
  /\ UNCHANGED << tz, store, tasks, loading, filterAssignee, calls, callbacks,
                  role, viewVars, filterVars >>

\* a task row of the tree, or its bar in the chart, is clicked
handleTaskClick(task) ==
  /\ mounted /\ steps < MaxSteps
  /\ \E i \in 1..Len(treeRows) :
       treeRows[i].kind = "task" /\ treeRows[i].task = task
  /\ selectedTask' = task
  /\ isModalOpen' = TRUE
  /\ form' = IF isModalOpen /\ selectedTask = task THEN form
             ELSE formOf(task)
  /\ steps' = steps + 1
  /\ UNCHANGED << tz, store, tasks, loading, filterAssignee, calls, callbacks,
                  role, alerts, viewVars, filterVars >>

onClose ==
  /\ isModalOpen /\ steps < MaxSteps
  /\ isModalOpen' = FALSE
  /\ steps' = steps + 1
  /\ UNCHANGED << tz, store, tasks, loading, filterAssignee, calls, callbacks,
                  role, selectedTask, alerts, form, viewVars, filterVars >>

handleSaveTask_NoRoleCheck(partial) ==
  IF partial.name = ""
  THEN /\ alerts' = alerts \cup { "Please enter a task name." }
       /\ UNCHANGED calls
  ELSE /\ calls' = Append(calls,
            IF selectedTask # NoTask
            THEN ModalUpdateCall(selectedTask.id, partial, ActionId)
            ELSE InsertCall(partial, ActionId))
       /\ UNCHANGED alerts

\* handleSaveTask up to its await
handleSaveTask(partial) ==
  IF ~canEditTasks THEN UNCHANGED << calls, alerts >>
  ELSE IF partial.name = ""
  THEN /\ alerts' = alerts \cup { "Please enter a task name." }
       /\ UNCHANGED calls
  ELSE /\ calls' = Append(calls,
            IF selectedTask # NoTask
            THEN ModalUpdateCall(selectedTask.id, partial, ActionId)
            ELSE InsertCall(partial, ActionId))
       /\ UNCHANGED alerts

\* the Save button of the modal (the Close button for a view-only profile)
handleSubmit(workType, end) ==
  /\ isModalOpen /\ steps < MaxSteps
  /\ LET fields == IF selectedTask # NoTask THEN editForm(selectedTask, end)
                   ELSE createForm(workType, end, tz)
         partial == [fields EXCEPT !.status = form.status,
                                   !.progress = form.progress]
     IN  IF ~canEditTasks
         THEN /\ isModalOpen' = FALSE
              /\ UNCHANGED << calls, alerts >>
         ELSE IF validationMessage(partial) # ""
         THEN /\ alerts' = alerts \cup { validationMessage(partial) }
              /\ UNCHANGED << calls, isModalOpen >>
         ELSE /\ handleSaveTask(partial)
              /\ UNCHANGED isModalOpen
  /\ steps' = steps + 1
  /\ UNCHANGED << tz, store, tasks, loading, filterAssignee, callbacks, role,
                  selectedTask, form, viewVars, filterVars >>

\* the status select and the progress slider of the open modal (disabled
\* for a view-only profile)
EditStatus(newStatus) ==
  /\ isModalOpen /\ canEditTasks /\ steps < MaxSteps
  /\ form' = handleStatusChange(form, newStatus)
  /\ steps' = steps + 1
  /\ UNCHANGED << tz, store, tasks, loading, filterAssignee, calls, callbacks,
                  role, isModalOpen, selectedTask, alerts, viewVars,
                  filterVars >>

EditProgress(value) ==
  /\ isModalOpen /\ canEditTasks /\ steps < MaxSteps
  /\ form' = handleProgressChange(form, value)
  /\ steps' = steps + 1
  /\ UNCHANGED << tz, store, tasks, loading, filterAssignee, calls, callbacks,
                  role, isModalOpen, selectedTask, alerts, viewVars,
                  filterVars >>

\* handleDeleteTask up to its await
handleDeleteTask(id) ==
  IF ~canEditTasks THEN UNCHANGED calls
  ELSE calls' = Append(calls, DeleteCall(id, ActionId))

\* the Delete button of the modal, shown for an existing task to a profile
\* that may edit; the user confirms
handleDeleteClick ==
  /\ isModalOpen /\ steps < MaxSteps
  /\ selectedTask # NoTask /\ canEditTasks
  /\ handleDeleteTask(selectedTask.id)
  /\ steps' = steps + 1
  /\ UNCHANGED << tz, store, tasks, loading, filterAssignee, callbacks,
                  modalVars, viewVars, filterVars >>

modalCallMessage(c) ==
  IF c.op = "update" THEN "Cannot update task"
  ELSE IF c.op = "insert" THEN "Cannot create task"
  ELSE "Cannot delete task"

\* the awaited update, insert or delete of the modal returns: on an error
\* the user is told and the handler returns; otherwise the modal closes
\* and the tasks are reloaded
modalCallResumes(i) ==
  /\ i \in 1..Len(calls)
  /\ calls[i].phase = "answered" /\ calls[i].by < 0
  /\ calls[i].op \in { "update", "insert", "delete" }
  /\ IF calls[i].err
     THEN /\ calls' = [calls EXCEPT ![i].phase = "done",
                                    ![i].alerted = TRUE]
          /\ alerts' = alerts \cup { modalCallMessage(calls[i]) }
          /\ UNCHANGED << loading, isModalOpen, viewVars >>
     ELSE /\ isModalOpen' = FALSE
          /\ loadTasks(calls[i].by, [calls EXCEPT ![i].phase = "done"])
          /\ UNCHANGED alerts
  /\ UNCHANGED << tz, store, tasks, filterAssignee, callbacks, role,
                  selectedTask, form, steps, filterVars >>

\* ---------------------------------------------- walkTasks, call by call
\* The recursion of walkTasks as the engine runs it: a stack of calls, each
\* at position k of the children list of its parentId.
MaxStack == 6

Frame(parentKey, depth, parentHidden) ==
  [parentKey |-> parentKey, k |-> 1, depth |-> depth,
   parentHidden |-> parentHidden]

walkStart_AtFirstTask(catTasks) ==
  << Frame(ParentKey(catTasks[1]), TaskDepth, FALSE) >>

\* walkTasks(null, 2, false)
walkStart(catTasks) == << Frame("root", TaskDepth, FALSE) >>

NoWalk == [tasks |-> <<>>, collapsed |-> {}, stack |-> <<>>, rows |-> <<>>,
           done |-> TRUE]

\* childrenByParent[parentId || 'root'] || []
childrenOf(catTasks, parentKey) ==
  SelectSeq(catTasks, LAMBDA t : ParentKey(t) = parentKey)

\* one step of the running walk: the call on top of the stack returns when
\* its loop is over, and otherwise handles the next child and calls itself
\* for that child
WalkStep ==
  /\ ~walk.done
  /\ IF walk.stack = <<>>
     THEN walk' = [walk EXCEPT !.done = TRUE]
     ELSE
       LET top == Len(walk.stack)
           f == walk.stack[top]
           list == childrenOf(walk.tasks, f.parentKey)
       IN  IF f.k > Len(list)
           THEN walk' = [walk EXCEPT !.stack = SubSeq(walk.stack, 1, top - 1)]
           ELSE
             LET t == list[f.k]
                 nextHidden == f.parentHidden \/ t.id \in walk.collapsed
             IN  /\ top < MaxStack
                 /\ walk' = [walk EXCEPT
                      !.rows = IF f.parentHidden THEN @
                               ELSE Append(@, Row("task", t.id, f.depth,
                                                  t.name, "", "", t)),
                      !.stack = Append([@ EXCEPT ![top].k = f.k + 1],
                                       Frame(t.id, f.depth + 1, nextHidden))]
  /\ UNCHANGED << tz, pageVars, viewVars, steps, fIn, fOut >>

\* buckets (the tasks of one assignee and one work type) to walk: a task
\* that is its own parent, two tasks that are each other's parent with a
\* subtask below them, a ring of three, and a plain chain
BucketTask(id, parent) == Task(id, "A", "routine", parent, Ymd(1), Ymd(5), 0)
WalkBuckets ==
  { << BucketTask("1", "1"), BucketTask("2", "") >>,
    << BucketTask("1", "2"), BucketTask("2", "1"), BucketTask("3", "1"),
       BucketTask("4", "") >>,
    << BucketTask("1", "3"), BucketTask("2", "1"), BucketTask("3", "2"),
       BucketTask("4", ""), BucketTask("5", "4") >>,
    << BucketTask("1", ""), BucketTask("2", "1"), BucketTask("3", "2") >> }

\* ------------------------------------------------------------ specification
NoFilterCall == [start |-> NullStr, end |-> NullStr, from |-> NullStr,
                 to |-> NullStr]

\* The page has rendered "Loading tasks..." and init, having read the
\* profile of a user with role r, has called loadTasks.
InitAs(r) ==
  /\ role = r
  /\ isModalOpen = FALSE
  /\ selectedTask = NoTask
  /\ alerts = {}
  /\ form = NoForm
  /\ tz \in TimeZones
  /\ store \in InitialStores
  /\ tasks = <<>>
  /\ loading = TRUE
  /\ filterAssignee = ""
  /\ calls = << SelectCall(0) >>
  /\ callbacks = <<>>
  /\ collapsedParents = {}
  /\ workTypeFilter = WORK_TYPES
  /\ viewFrom = NullStr
  /\ viewTo = NullStr
  /\ initialCollapseApplied = FALSE
  /\ treeRows = <<>>
  /\ ganttTasks = <<>>
  /\ ganttBuilt = FALSE
  /\ treePanel = <<>>
  /\ treeEmptyMsg = FALSE
  /\ chartEmptyMsg = FALSE
  /\ todayLines = 0
  /\ treeScrollTop = 0
  /\ bodyScrollTop = 0
  /\ steps = 0
  /\ fIn = NoFilterCall
  /\ fOut = "none"
  /\ walk = NoWalk

\* a profile that may edit tasks
Init == InitAs("user")

Next ==
  \/ \E id \in Toggleable : ToggleCollapse(id)
  \/ \E v \in SeqToSet(WORK_TYPES) : ToggleWorkType(v)
  \/ \E v \in PickerDates : SetViewFrom(v)
  \/ \E v \in PickerDates : SetViewTo(v)
  \/ handleTodayRange
  \/ \E a \in Assignees : SetFilterAssignee(a)
  \/ \E e \in EntryIds, s \in DragInstants, d \in DragInstants :
       s.t < d.t /\ on_date_change(e, s, d)
  \/ \E e \in EntryIds, p \in ProgressValues : on_progress_change(e, p)
  \/ \E i \in 1..Len(calls), err \in BOOLEAN : StoreAnswers(i, err)
  \/ \E i \in 1..Len(calls) : updateResumes(i)
  \/ \E i \in 1..Len(calls) : loadTasksResumes(i)

Spec == Init /\ [][Next]_vars

\* The same program while no bar of the chart is dragged: the page loads
\* the tasks and the user works with the tree, the filters and the window.
NextView ==
  \/ \E id \in Toggleable : ToggleCollapse(id)
  \/ \E v \in SeqToSet(WORK_TYPES) : ToggleWorkType(v)
  \/ \E v \in PickerDates : SetViewFrom(v)
  \/ \E v \in PickerDates : SetViewTo(v)
  \/ handleTodayRange
  \/ \E a \in Assignees : SetFilterAssignee(a)
  \/ \E i \in 1..Len(calls), err \in BOOLEAN : StoreAnswers(i, err)
  \/ \E i \in 1..Len(calls) : loadTasksResumes(i)

SpecView == Init /\ [][NextView]_vars

\* The page with its modal and the bars of the chart, for a profile of
\* either kind; the window and the filters stay as the mount set them.
InitPage == \E r \in Roles : InitAs(r)

NextPage ==
  \/ \E id \in Toggleable : ToggleCollapse(id)
  \/ handleNewTask
  \/ \E i \in 1..Len(treeRows) : handleTaskClick(treeRows[i].task)
  \/ onClose
  \/ \E w \in FormWorkTypes, e \in FormEndDates : handleSubmit(w, e)
  \/ handleDeleteClick
  \/ \E e \in EntryIds, s \in DragInstants, d \in DragInstants :
       s.t < d.t /\ on_date_change(e, s, d)
  \/ \E e \in EntryIds, p \in ProgressValues : on_progress_change(e, p)
  \/ \E i \in 1..Len(calls), err \in BOOLEAN : StoreAnswers(i, err)
  \/ \E i \in 1..Len(calls) : updateResumes(i)
  \/ \E i \in 1..Len(calls) : modalCallResumes(i)
  \/ \E i \in 1..Len(calls) : loadTasksResumes(i)

SpecPage == InitPage /\ [][NextPage]_vars

\* The user opens rows of the tree, moves the start of the window and drags
\* one edge of a bar, the other edge staying where the chart drew it.
NextEdge ==
  \/ \E id \in Toggleable : ToggleCollapse(id)
  \/ \E v \in PickerDates : SetViewFrom(v)
  \/ \E e \in EntryIds, d \in DragInstants :
       /\ Parseable(entryOf(e).start)
       /\ barStart(entryOf(e), tz).t < d.t
       /\ on_date_change(e, barStart(entryOf(e), tz), d)
  \/ \E e \in EntryIds, s \in DragInstants :
       /\ Parseable(entryOf(e).end)
       /\ s.t < barEnd(entryOf(e), tz).t
       /\ on_date_change(e, s, barEnd(entryOf(e), tz))
  \/ \E i \in 1..Len(calls), err \in BOOLEAN : StoreAnswers(i, err)
  \/ \E i \in 1..Len(calls) : updateResumes(i)
  \/ \E i \in 1..Len(calls) : loadTasksResumes(i)

SpecEdge == Init /\ [][NextEdge]_vars

\* The user opens rows and moves the window, also to a start more than a
\* month after today.
FarPickerDates == PickerDates \cup { Ymd(40) }

NextToday ==
  \/ \E id \in Toggleable : ToggleCollapse(id)
  \/ \E v \in FarPickerDates : SetViewFrom(v)
  \/ \E v \in PickerDates : SetViewTo(v)
  \/ \E i \in 1..Len(calls), err \in BOOLEAN : StoreAnswers(i, err)
  \/ \E i \in 1..Len(calls) : loadTasksResumes(i)

SpecToday == Init /\ [][NextToday]_vars

\* The user edits status and progress of tasks: in the modal, followed by
\* Save, and with the progress handle of a bar.
NextCouple ==
  \/ \E id \in Toggleable : ToggleCollapse(id)
  \/ handleNewTask
  \/ \E i \in 1..Len(treeRows) : handleTaskClick(treeRows[i].task)
  \/ \E v \in Statuses : EditStatus(v)
  \/ \E v \in ProgressInputs : EditProgress(v)
  \/ handleSubmit("routine", NullStr)
  \/ \E e \in EntryIds, v \in ProgressValues : on_progress_change(e, v)
  \/ \E i \in 1..Len(calls) : StoreAnswers(i, FALSE)
  \/ \E i \in 1..Len(calls) : updateResumes(i)
  \/ \E i \in 1..Len(calls) : modalCallResumes(i)
  \/ \E i \in 1..Len(calls) : loadTasksResumes(i)

InitCouple == InitAs("user") /\ tz = 7 /\ store = ScenarioStore

SpecCouple == InitCouple /\ [][NextCouple]_vars

\* The same program while the user only opens rows of the tree and works on
\* the bars of the chart: drags, progress changes, and the store's answers.
NextDrag ==
  \/ \E id \in Toggleable : ToggleCollapse(id)
  \/ \E e \in EntryIds, s \in DragInstants, d \in DragInstants :
       s.t < d.t /\ on_date_change(e, s, d)
  \/ \E e \in EntryIds, p \in ProgressValues : on_progress_change(e, p)
  \/ \E i \in 1..Len(calls), err \in BOOLEAN : StoreAnswers(i, err)
  \/ \E i \in 1..Len(calls) : updateResumes(i)
  \/ \E i \in 1..Len(calls) : loadTasksResumes(i)

SpecDrag == Init /\ [][NextDrag]_vars

\* --------------------------------------------- scrolling the two panels
WheelDeltas == { -1, 1, 2 }

\* the user scrolls the chart body to offset v; its scroll event is handled
ScrollBody(v) ==
  /\ mounted
  /\ v \in 0..bodyScrollMax(treeRows) /\ v # bodyScrollTop
  /\ bodyScrollTop' = v
  /\ treeScrollTop' = syncFromBody(treeScrollTop, v, treeScrollMax(treeRows))
  /\ UNCHANGED << tz, pageVars, renderVars, steps, filterVars >>

\* a wheel event over the tree panel, and the scroll event of the chart
\* body that follows when its offset changed
WheelTree(deltaY) ==
  /\ mounted
  /\ bodyScrollTop' = onWheelTree(bodyScrollTop, deltaY,
                                  bodyScrollMax(treeRows))
  /\ treeScrollTop' = IF bodyScrollTop' # bodyScrollTop
                      THEN syncFromBody(treeScrollTop, bodyScrollTop',
                                        treeScrollMax(treeRows))
                      ELSE treeScrollTop
  /\ UNCHANGED << tz, pageVars, renderVars, steps, filterVars >>

NextScroll ==
  \/ \E id \in Toggleable : ToggleCollapse(id)
  \/ \E v \in 0..bodyScrollMax(treeRows) : ScrollBody(v)
  \/ \E d \in WheelDeltas : WheelTree(d)
  \/ \E i \in 1..Len(calls), err \in BOOLEAN : StoreAnswers(i, err)
  \/ \E i \in 1..Len(calls) : loadTasksResumes(i)

SpecScroll == Init /\ [][NextScroll]_vars

\* ------------------------------------------- specification of walkTasks
InitWalk ==
  /\ tz = 0
  /\ store = <<>>
  /\ tasks = <<>>
  /\ loading = TRUE
  /\ filterAssignee = ""
  /\ calls = <<>>
  /\ callbacks = <<>>
  /\ role = "user"
  /\ isModalOpen = FALSE
  /\ selectedTask = NoTask
  /\ alerts = {}
  /\ form = NoForm
  /\ collapsedParents = {}
  /\ workTypeFilter = WORK_TYPES
  /\ viewFrom = NullStr
  /\ viewTo = NullStr
  /\ initialCollapseApplied = FALSE
  /\ treeRows = <<>>
  /\ ganttTasks = <<>>
  /\ ganttBuilt = FALSE
  /\ treePanel = <<>>
  /\ treeEmptyMsg = FALSE
  /\ chartEmptyMsg = FALSE
  /\ todayLines = 0
  /\ treeScrollTop = 0
  /\ bodyScrollTop = 0
  /\ steps = 0
  /\ fIn = NoFilterCall
  /\ fOut = "none"
  /\ \E b \in WalkBuckets, c \in SUBSET { "1", "2", "4" } :
       walk = [tasks |-> b, collapsed |-> c, stack |-> walkStart(b),
               rows |-> <<>>, done |-> FALSE]

NextWalk == WalkStep

\* the walk is one synchronous computation: it runs on while it can
SpecWalk == InitWalk /\ [][NextWalk]_vars /\ WF_vars(WalkStep)

\* --------------------------------------- specification of the date filter
TaskDateStrings == { NullStr, BadStr, Ymd(1), Ymd(5), Ymd(10), Ymd(33) }
WindowDateStrings == { NullStr, Ymd(1), Ymd(5), Ymd(10), Ymd(33) }

InitFilter ==
  /\ tz = 0
  /\ store = <<>>
  /\ tasks = <<>>
  /\ loading = TRUE
  /\ filterAssignee = ""
  /\ calls = <<>>
  /\ callbacks = <<>>
  /\ role = "user"
  /\ isModalOpen = FALSE
  /\ selectedTask = NoTask
  /\ alerts = {}
  /\ form = NoForm
  /\ collapsedParents = {}
  /\ workTypeFilter = WORK_TYPES
  /\ viewFrom = NullStr
  /\ viewTo = NullStr
  /\ initialCollapseApplied = FALSE
  /\ treeRows = <<>>
  /\ ganttTasks = <<>>
  /\ ganttBuilt = FALSE
  /\ treePanel = <<>>
  /\ treeEmptyMsg = FALSE
  /\ chartEmptyMsg = FALSE
  /\ todayLines = 0
  /\ treeScrollTop = 0
  /\ bodyScrollTop = 0
  /\ steps = 0
  /\ fIn \in [start : TaskDateStrings, end : TaskDateStrings,
              from : WindowDateStrings, to : WindowDateStrings]
  /\ fOut = "none"
  /\ walk = NoWalk

\* one task is put through the filter of dateFilteredTasks
ApplyDateFilter ==
  /\ fOut = "none"
  /\ fOut' = IF rangesIntersect(fIn.start, fIn.end, fIn.from, fIn.to)
             THEN "kept" ELSE "dropped"
  /\ UNCHANGED << tz, pageVars, viewVars, steps, fIn, walk >>

NextFilter == ApplyDateFilter

SpecFilter == InitFilter /\ [][NextFilter]_vars

\* ================================================================== claims

\* ---- date filter (SpecFilter)
SingleDated == Parseable(fIn.start) # Parseable(fIn.end)
TheDay == IF Parseable(fIn.start) THEN fIn.start.day ELSE fIn.end.day
SomeBound == ~IsEmptyStr(fIn.from) \/ ~IsEmptyStr(fIn.to)

\* C1: with at least one window bound set, a task with exactly one parseable
\* date d is kept iff (from unset or d >= from) and (to unset or d <= to).
C1_SingleDatePoint ==
  (fOut # "none" /\ SomeBound /\ SingleDated) =>
    ( fOut = "kept" <=>
        /\ (IsEmptyStr(fIn.from) \/ TheDay >= fIn.from.day)
        /\ (IsEmptyStr(fIn.to) \/ TheDay <= fIn.to.day) )

\* a task with only a start date, lying before the window, was dropped
C1_Witness ==
  /\ fOut = "dropped"
  /\ fIn.start = Ymd(5) /\ fIn.end = NullStr
  /\ fIn.from = Ymd(10) /\ fIn.to = Ymd(33)

\* C2: a task with neither date is kept for every window.
C2_UndatedKept ==
  (fOut # "none" /\ IsEmptyStr(fIn.start) /\ IsEmptyStr(fIn.end)) =>
    fOut = "kept"

\* an undated task went through a window whose from is later than its to
C2_Witness ==
  /\ fOut = "kept"
  /\ IsEmptyStr(fIn.start) /\ IsEmptyStr(fIn.end)
  /\ fIn.from = Ymd(33) /\ fIn.to = Ymd(10)

\* ---- flattening (SpecView)
shownTasks == dateFilteredTasks(tasksProp, viewFrom, viewTo)

SameBucket(a, b) ==
  /\ AssigneeKey(a) = AssigneeKey(b)
  /\ normalizeWorkType(a.work_type) = normalizeWorkType(b.work_type)

\* the tasks on the parent chain of t inside its bucket, at most n links up
RECURSIVE AncestorsIn(_, _, _)
AncestorsIn(t, pool, n) ==
  IF n = 0 THEN {}
  ELSE LET ps == { p \in pool : p.id = t.parent_id /\ SameBucket(p, t) }
       IN  ps \cup UNION { AncestorsIn(p, pool, n - 1) : p \in ps }

TaskAncestors(t) == AncestorsIn(t, Range(shownTasks), Len(shownTasks))

HasCollapsedAncestor(row) ==
  \/ row.kind = "category" /\ userRowId(row.userKey) \in collapsedParents
  \/ /\ row.kind = "task"
     /\ \/ userRowId(AssigneeKey(row.task)) \in collapsedParents
        \/ catRowId(AssigneeKey(row.task),
                    normalizeWorkType(row.task.work_type)) \in collapsedParents
        \/ \E a \in TaskAncestors(row.task) : a.id \in collapsedParents

\* a task that hangs, through parents of its bucket, below a root task
Rooted(t) ==
  \/ t.parent_id = ""
  \/ \E a \in TaskAncestors(t) : a.parent_id = ""

\* the row of a collapsed id is due when nothing above it is collapsed
CollapsedRowDue(id) ==
  \/ \E t \in Range(shownTasks) : id = userRowId(AssigneeKey(t))
  \/ \E t \in Range(shownTasks) :
       /\ id = catRowId(AssigneeKey(t), normalizeWorkType(t.work_type))
       /\ normalizeWorkType(t.work_type) \in Range(workTypeFilter)
       /\ userRowId(AssigneeKey(t)) \notin collapsedParents
  \/ \E t \in Range(shownTasks) :
       /\ id = t.id
       /\ Rooted(t)
       /\ normalizeWorkType(t.work_type) \in Range(workTypeFilter)
       /\ ~HasCollapsedAncestor(Row("task", t.id, 0, t.name, "", "", t))

\* C3: no row of the flattened list has a collapsed ancestor (assignee row,
\* category row or a task on its parent chain), and the collapsed row itself
\* is emitted.
C3_CollapseInvariant ==
  /\ \A i \in 1..Len(treeRows) : ~HasCollapsedAncestor(treeRows[i])
  /\ \A id \in collapsedParents :
       CollapsedRowDue(id) => id \in Range(Ids(treeRows))

\* task 3 is collapsed and shown, its subtasks 4 and 5 are not
C3_Witness ==
  /\ mounted
  /\ "3" \in collapsedParents
  /\ "cat:A:routine" \notin collapsedParents
  /\ "3" \in Range(Ids(treeRows))
  /\ "4" \notin Range(Ids(treeRows))
  /\ "5" \notin Range(Ids(treeRows))

\* C4: the ids of the entries handed to the chart are, element for element,
\* the ids of the rows rendered in the tree panel.
C4_RowOrderEquality ==
  Ids(ganttTasks) = Ids(treePanel)

\* headers and a task are shown with a category switched off and a row
\* collapsed
C4_Witness ==
  /\ mounted
  /\ Len(ganttTasks) >= 3
  /\ hasAnyTaskRow(treeRows)
  /\ Len(workTypeFilter) < Len(WORK_TYPES)
  /\ collapsedParents # {}

\* C5: switching an active category off and on again gives back the same
\* rows, and neither step changes the collapsed set.
C5_FilterRoundTrip ==
  mounted =>
    \A c \in Range(workTypeFilter) :
      LET off == handleToggleWorkType(workTypeFilter, c, FALSE)
          s1 == Settle(tasksProp, collapsedParents, off, viewFrom, viewTo,
                       initialCollapseApplied)
          on == handleToggleWorkType(off, c, TRUE)
          s2 == Settle(tasksProp, s1.collapsed, on, viewFrom, viewTo,
                       s1.latch)
      IN  /\ s2.rows = treeRows
          /\ s1.collapsed = collapsedParents
          /\ s2.collapsed = collapsedParents

\* routine was switched off and on again (it now ends the filter list) and
\* its expanded category row is back with its task
C5_Witness ==
  /\ mounted
  /\ workTypeFilter = << "strategic", "process_improvement",
                         "self_development", "other", "routine" >>
  /\ "cat:A:routine" \in Range(Ids(treeRows))
  /\ "cat:A:routine" \notin collapsedParents
  /\ hasAnyTaskRow(treeRows)

InScenario ==
  /\ mounted
  /\ tasksProp = ScenarioStore
  /\ viewFrom = Ymd(1) /\ viewTo = Ymd(10)
  /\ Range(workTypeFilter) = Range(WORK_TYPES)
  /\ collapsedParents = {}

\* C6: in the scenario (tasks 1 and 2 of assignee A, window 2024-01-01 to
\* 2024-01-10, all categories active, nothing collapsed) the rows are
\* user:A, cat:A:routine, task 1, in that order.
C6_Scenario ==
  InScenario =>
    /\ Ids(treeRows) = << "user:A", "cat:A:routine", "1" >>
    /\ [ i \in 1..Len(treeRows) |-> treeRows[i].kind ]
         = << "user", "category", "task" >>

C6_Witness == InScenario /\ Len(treeRows) = 3

\* C7: with an empty task collection the row list is empty, no chart entry
\* is built and no chart is instantiated, and both empty-state messages show.
C7_EmptyLoad ==
  (mounted /\ tasksProp = <<>>) =>
    /\ treeRows = <<>>
    /\ ganttTasks = <<>>
    /\ ~ganttBuilt
    /\ treePanel = <<>> /\ treeEmptyMsg
    /\ chartEmptyMsg

\* the page loaded an empty tasks table and the chart is mounted
C7_Witness ==
  /\ mounted /\ store = <<>> /\ tasks = <<>> /\ filterAssignee = ""
  /\ calls[1].phase = "done" /\ ~calls[1].err
  /\ treeEmptyMsg /\ chartEmptyMsg

\* ---- chart callbacks and the store (Spec)
CallsBy(k, op) == { i \in 1..Len(calls) : calls[i].by = k /\ calls[i].op = op }

\* C8: a date-change callback for a task row issues exactly one update, for
\* that task's id and with the new start and end (as UTC calendar dates),
\* and once that call has returned exactly one reload; it makes no other
\* store call.
C8_DragOneUpdateOneReload ==
  \A k \in 1..Len(callbacks) :
    (callbacks[k].kind = "date" /\ callbacks[k].rowKind = "task") =>
      /\ Cardinality(CallsBy(k, "update")) = 1
      /\ \A u \in CallsBy(k, "update") :
           /\ calls[u].id = callbacks[k].entry
           /\ calls[u].fields = "dates"
           /\ calls[u].start_date = toISODate(callbacks[k].start)
           /\ calls[u].end_date = toISODate(callbacks[k].end)
           /\ Cardinality(CallsBy(k, "select")) =
                (IF calls[u].phase = "done" THEN 1 ELSE 0)
           /\ \A r \in CallsBy(k, "select") : r > u
      /\ \A i \in 1..Len(calls) :
           calls[i].by = k => calls[i].op \in {"update", "select"}

\* a task bar was dragged, the update failed, and the reload it triggered
\* has been applied by the page
C8_Witness ==
  \E k \in 1..Len(callbacks) :
    /\ callbacks[k].kind = "date" /\ callbacks[k].rowKind = "task"
    /\ \E u \in CallsBy(k, "update") : calls[u].phase = "done" /\ calls[u].err
    /\ \E r \in CallsBy(k, "select") : calls[r].phase = "done"

taskIdsOfStore == { store[i].id : i \in 1..Len(store) }

\* C9: a date-change or progress-change callback on an assignee or category
\* row issues no store call and no reload; every update the chart issues is
\* addressed to the id of a task.
C9_HeadersNeverReachStore ==
  /\ \A k \in 1..Len(callbacks) :
       callbacks[k].rowKind \in {"user", "category"} =>
         \A i \in 1..Len(calls) : calls[i].by # k
  /\ \A i \in 1..Len(calls) :
       calls[i].op = "update" => calls[i].id \in taskIdsOfStore

\* the bar of a category row was dragged and the page went on being used
C9_Witness ==
  /\ Len(callbacks) = 1
  /\ callbacks[1].kind = "date" /\ callbacks[1].rowKind = "category"
  /\ steps = MaxSteps
  /\ mounted

\* ---- default collapse (SpecView)
\* rows of the first render of a mount: no window, nothing collapsed
firstRenderRows(ts) ==
  treeRowsOf(dateFilteredTasks(ts, NullStr, NullStr), {}, WORK_TYPES)

SameMount == mounted /\ mounted'
MountStep == ~mounted /\ mounted'

\* C10: the first build of a mount with a non-empty row list adds every
\* category row of that build to the collapsed set; once that has happened
\* no step of the same mount changes the collapsed set except a collapse
\* toggle, which flips exactly the toggled id.
C10_OneShotDefaultCollapse ==
  [][ /\ MountStep =>
           /\ initialCollapseApplied' = (tasksProp' # <<>>)
           /\ collapsedParents' = categoryIds(firstRenderRows(tasksProp'))
      /\ (SameMount /\ ~initialCollapseApplied) =>
           /\ initialCollapseApplied' = (treeRows' # <<>>)
           /\ initialCollapseApplied' =>
                categoryIds(treeRows') \subseteq collapsedParents'
      /\ (SameMount /\ initialCollapseApplied) =>
           /\ initialCollapseApplied'
           /\ \A id \in Toggleable :
                ToggleCollapse(id) =>
                  collapsedParents' = toggleCollapse(collapsedParents, id)
           /\ (~ \E id \in Toggleable : ToggleCollapse(id)) =>
                collapsedParents' = collapsedParents
    ]_vars

\* a category the user expanded is still expanded after a later change of
\* the window
C10_Witness ==
  /\ mounted /\ initialCollapseApplied
  /\ "cat:A:routine" \in Range(Ids(treeRows))
  /\ "cat:A:routine" \notin collapsedParents
  /\ viewTo = Ymd(33)

Selects == { i \in 1..Len(calls) : calls[i].op = "select" }

\* C12: reloads carry no sequence guard: when a reload resolves with a
\* result after a reload issued later than it has already resolved, the
\* page takes the older reload's result as its task collection.
C12_StaleReloadWins ==
  [][ \A i \in Selects :
        ( /\ calls[i].phase = "answered" /\ calls'[i].phase = "done"
          /\ ~calls[i].err
          /\ \E j \in Selects : j > i /\ calls[j].phase = "done" )
        => tasks' = calls[i].data ]_vars

\* two reloads were issued, the later one resolved first, and the page
\* holds the result of the earlier one, which differs from the later one's
C12_Witness ==
  \E i, j \in Selects :
    /\ i < j
    /\ calls[i].phase = "done" /\ calls[j].phase = "done"
    /\ ~calls[i].err /\ ~calls[j].err
    /\ calls[i].data # calls[j].data
    /\ tasks = calls[i].data
    /\ Len(calls[j].data) > Len(tasks)

\* C13: whenever a row-store call of the UI (reload, modal update, insert,
\* delete, drag update, progress update) returns an error, the user is
\* shown a message and the action stops there: no further store call is
\* issued and the modal stays as it was.
C13_StoreErrorsAbort ==
  [][ \A i \in 1..Len(calls) :
        ( /\ calls[i].phase = "answered" /\ calls'[i].phase = "done"
          /\ calls[i].err )
        => /\ calls'[i].alerted
           /\ Len(calls') = Len(calls)
           /\ isModalOpen' = isModalOpen ]_vars

\* ---- orphans, cycles and carets (SpecView, SpecWalk)
\* a task whose parent reference names no surviving task of its bucket
Orphan(t) ==
  /\ t.parent_id # ""
  /\ ~\E p \in Range(shownTasks) : p.id = t.parent_id /\ SameBucket(p, t)

\* C14: a surviving task whose parent is not in its assignee/category
\* bucket is emitted as a root task row, at depth 2, whenever its category
\* is active and its assignee and category rows are not collapsed.
C14_OrphansBecomeRoots ==
  mounted =>
    \A t \in Range(shownTasks) :
      ( /\ Orphan(t)
        /\ normalizeWorkType(t.work_type) \in Range(workTypeFilter)
        /\ userRowId(AssigneeKey(t)) \notin collapsedParents
        /\ catRowId(AssigneeKey(t), normalizeWorkType(t.work_type))
             \notin collapsedParents )
      => \E i \in 1..Len(treeRows) :
           treeRows[i] = Row("task", t.id, TaskDepth, t.name, "", "", t)

\* a task that is reached from itself by following parent references
OnCycle(t, pool) == t \in AncestorsIn(t, pool, Cardinality(pool))
HasCycle(q) == \E t \in Range(q) : OnCycle(t, Range(q))

\* C15 as claimed: over a task collection with a cycle of parent
\* references the recursive flatten never comes to an end.
C15_CycleNeverEnds == HasCycle(walk.tasks) => ~walk.done

\* C15 as the code has it: over a task collection with a cycle of parent
\* references the recursive flatten comes to an end, having emitted no row
\* for a task on the cycle nor for a task below one.
C15_CycleEndsUnvisited ==
  (HasCycle(walk.tasks) /\ ~walk.done) ~>
    ( /\ walk.done
      /\ \A i \in 1..Len(walk.rows) :
           /\ ~OnCycle(walk.rows[i].task, Range(walk.tasks))
           /\ \A a \in AncestorsIn(walk.rows[i].task, Range(walk.tasks),
                                    Len(walk.tasks)) :
                ~OnCycle(a, Range(walk.tasks)) )

\* the walk over the ring of three has ended with rows for tasks 4 and 5
C15_Witness ==
  /\ walk.done
  /\ Len(walk.tasks) = 5 /\ HasCycle(walk.tasks)
  /\ Ids(walk.rows) = << "4", "5" >>

\* ---- dragging one edge of a bar (SpecEdge)
taskOfId(id) == CHOOSE t \in Range(tasksProp) : t.id = id

\* C16: when only one edge of a task's bar is dragged, the update written
\* to the store carries, for the other date, the task's stored date; also
\* for a bar that was clamped to the window.
C16_DragKeepsOtherDate ==
  [][ ( /\ Len(calls') = Len(calls) + 1
        /\ calls'[Len(calls')].fields = "dates" )
      => LET c == calls'[Len(calls')]
             cb == callbacks'[Len(callbacks')]
             e == entryOf(c.id)
             t == taskOfId(c.id)
         IN  /\ (Parseable(e.start) /\ cb.start = barStart(e, tz))
                  => c.start_date = t.start_date
             /\ (Parseable(e.end) /\ cb.end = barEnd(e, tz))
                  => c.end_date = t.end_date ]_vars

\* ---- reloads and the state of the timeline (SpecPage)
\* a step of a reload: the select of loadTasks is issued by a handler (not
\* by the first load of the page), or such a select resumes
ReloadIssued ==
  /\ Len(calls') = Len(calls) + 1
  /\ calls'[Len(calls')].op = "select"
  /\ calls'[Len(calls')].by # 0
ReloadResumed ==
  \E i \in 1..Len(calls) :
    /\ calls[i].op = "select" /\ calls[i].by # 0
    /\ calls[i].phase = "answered" /\ calls'[i].phase = "done"

\* C17: a reload of the task collection (after a drag, a progress change, a
\* save or a delete) leaves the collapsed set, the category filter and the
\* date window of the timeline as the user had set them and does not run
\* the default collapse of categories again.
C17_ViewStateSurvivesReload ==
  [][ (ReloadIssued \/ ReloadResumed)
      => /\ collapsedParents' = collapsedParents
         /\ workTypeFilter' = workTypeFilter
         /\ viewFrom' = viewFrom /\ viewTo' = viewTo
         /\ initialCollapseApplied' = initialCollapseApplied ]_vars

\* ---- the view-only role (SpecPage)
Writes == { "insert", "update", "delete" }

\* C18: while the current profile's role is manager, no action of the user
\* issues an insert, update or delete against the task table: not the
\* modal's save or delete, not the new-task action, not a drag of a bar or
\* of a progress handle.
C18_ManagerNeverWrites ==
  role = "manager" => \A i \in 1..Len(calls) : calls[i].op \notin Writes

\* ---- the loading flag (SpecPage)
\* a reload is in flight from the select it issues until loadTasks resumes
ReloadInFlight(i) == calls[i].op = "select" /\ calls[i].phase # "done"

\* C19: in every reachable state, if at least one reload of the tasks is in
\* flight the page's loading flag is true; also when reloads overlap.
C19_LoadingCoversReloads ==
  (\E i \in 1..Len(calls) : ReloadInFlight(i)) => loading

\* ---- carets of the tree panel (SpecView)
\* C20: a task row shows a caret iff some task that survives the date
\* window, of the same assignee and category, has that task as its parent
\* (so that expanding the row emits a row beneath it); collapsed or not.
C20_CaretIffChildRow ==
  mounted =>
    \A i \in 1..Len(treePanel) :
      treePanel[i].kind = "task" =>
        ( treePanel[i].hasChildren
          <=> \E t \in Range(shownTasks) :
                /\ t.parent_id = treeRows[i].id
                /\ SameBucket(treeRows[i].task, t) )

\* ---- header rows of the tree (SpecView)
RowCount(id) == Cardinality({ i \in 1..Len(treeRows) : treeRows[i].id = id })
UserKeys == { AssigneeKey(t) : t \in Range(shownTasks) }
HasTaskOf(k, c) ==
  \E t \in Range(shownTasks) :
    AssigneeKey(t) = k /\ normalizeWorkType(t.work_type) = c

\* C21: under every assignee row that is not collapsed, the row
\* cat:<assigneeKey>:<c> is emitted iff category c is in the active filter
\* and some task surviving the date window, of that assignee, normalises to
\* c (no category counts as routine, an unknown one as other); collapsed or
\* not, and at most once.
C21_CategoryRows ==
  mounted =>
    \A k \in UserKeys : \A c \in SeqToSet(WORK_TYPES) :
      userRowId(k) \notin collapsedParents =>
        RowCount(catRowId(k, c)) =
          (IF c \in Range(workTypeFilter) /\ HasTaskOf(k, c) THEN 1 ELSE 0)

C21_Witness ==
  /\ mounted
  /\ RowCount("cat:__unassigned__:other") = 1
  /\ "cat:__unassigned__:other" \in collapsedParents
  /\ RowCount("cat:A:routine") = 0
  /\ HasTaskOf("A", "routine")
  /\ "user:A" \notin collapsedParents

UserRowIndexes == { i \in 1..Len(treeRows) : treeRows[i].depth = 0 }

\* C22: the flattened list has exactly one depth-0 row user:<key> per
\* distinct assignee among the tasks that survive the date window (tasks
\* without assignee share one key), these rows are in ascending order of
\* their labels, and they are there whatever the collapsed set and the
\* category filter are.
C22_AssigneeRows ==
  mounted =>
    /\ \A k \in UserKeys : RowCount(userRowId(k)) = 1
    /\ { treeRows[i].id : i \in UserRowIndexes }
         = { userRowId(k) : k \in UserKeys }
    /\ \A i \in UserRowIndexes : treeRows[i].kind = "user"
    /\ \A i, j \in UserRowIndexes :
         i < j => localeCompare(treeRows[i].label, treeRows[j].label) < 0

C22_Witness ==
  /\ mounted
  /\ Cardinality(UserRowIndexes) = 2
  /\ AssigneeKey(shownTasks[1]) = "__unassigned__"
  /\ "user:A" \in collapsedParents
  /\ workTypeFilter # WORK_TYPES

\* ---- bars of the chart (SpecView)
TaskEntryIndexes ==
  { i \in 1..Len(ganttTasks) : i <= Len(treeRows) /\ treeRows[i].kind = "task" }
BothDated(t) == Parseable(t.start_date) /\ Parseable(t.end_date)
WindowInOrder ==
  (Parseable(viewFrom) /\ Parseable(viewTo)) => viewFrom.day <= viewTo.day

\* C23: for a window with from <= to and every task row whose task has both
\* dates, the entry's start is the later of the task's start and from, its
\* end the earlier of the task's end and to; a side without bound passes the
\* task's date through unchanged.
C23_ClampedProjection ==
  (mounted /\ WindowInOrder) =>
    \A i \in TaskEntryIndexes :
      BothDated(treeRows[i].task) =>
        LET t == treeRows[i].task
        IN  /\ ganttTasks[i].start =
                 (IF Parseable(viewFrom)
                  THEN Ymd(Max(t.start_date.day, viewFrom.day))
                  ELSE t.start_date)
            /\ ganttTasks[i].end =
                 (IF Parseable(viewTo)
                  THEN Ymd(Min(t.end_date.day, viewTo.day))
                  ELSE t.end_date)

\* C24: for every window the two date pickers can produce (a bound unset,
\* or from later than to) and every task row whose stored start is not
\* after its stored end, the entry built for it has start <= end.
C24_BarsWellFormed ==
  mounted =>
    \A i \in TaskEntryIndexes :
      ( /\ BothDated(treeRows[i].task)
        /\ treeRows[i].task.start_date.day <= treeRows[i].task.end_date.day )
      => ganttTasks[i].start.day <= ganttTasks[i].end.day

\* ---- toggling a row (SpecView)
\* a step in which the user toggled row id: its membership flips while the
\* filter, the window and the tasks stay
Toggled(id) ==
  /\ mounted /\ mounted' /\ steps' = steps + 1
  /\ (id \in collapsedParents) # (id \in collapsedParents')
  /\ UNCHANGED << tasks, filterAssignee, workTypeFilter, viewFrom, viewTo >>

\* C25: toggleCollapse(id) applied twice in succession returns the collapsed
\* set and the flattened rows to what they were; a toggle changes only the
\* membership of id, so the flags of hidden descendants are kept.
C25_ToggleRoundTrip ==
  [][ \A id \in Toggleable :
        Toggled(id) =>
          LET back == Settle(tasksProp', toggleCollapse(collapsedParents', id),
                             workTypeFilter', viewFrom', viewTo',
                             initialCollapseApplied')
          IN  /\ collapsedParents' \ {id} = collapsedParents \ {id}
              /\ back.collapsed = collapsedParents
              /\ back.rows = treeRows ]_vars

C25_Witness ==
  /\ mounted /\ steps = 2
  /\ "user:A" \in collapsedParents
  /\ "cat:A:routine" \notin collapsedParents
  /\ "cat:A:strategic" \in collapsedParents
  /\ Ids(treeRows) = << "user:A" >>

\* ---- status and progress (SpecCouple)
Coupled(t) ==
  /\ t.status = "To Do" => t.progress = 0
  /\ t.status = "Done" => t.progress = 100

\* C26: starting from a store in which every task has progress 0 if its
\* status is 'To Do' and progress 100 if it is 'Done', every stored task
\* still has after any sequence of status and progress edits in the modal
\* followed by Save and of progress-handle changes in the chart.
C26_CouplingKeptInStore == \A t \in Range(store) : Coupled(t)

Exempt == { "Blocked", "In problem Need Help" }

\* C27: handleProgressChange(v) leaves the status unchanged when it is
\* 'Blocked' or 'In problem Need Help' and otherwise sets it to 'To Do' for
\* v = 0, 'Done' for v = 100 and 'In Progress' in between;
\* handleStatusChange(s) sets progress to 100 for 'Done', to 0 for 'To Do'
\* and leaves it unchanged for every other status.
C27_CouplingSteps ==
  isModalOpen =>
    /\ \A v \in ProgressInputs :
         handleProgressChange(form, v).status =
           (IF form.status \in Exempt THEN form.status
            ELSE IF v = 0 THEN "To Do"
            ELSE IF v = 100 THEN "Done" ELSE "In Progress")
    /\ \A st \in Statuses :
         handleStatusChange(form, st).progress =
           (IF st = "Done" THEN 100
            ELSE IF st = "To Do" THEN 0 ELSE form.progress)

C27_Witness ==
  /\ isModalOpen /\ steps = 3
  /\ form = [status |-> "Blocked", progress |-> 50]

\* ---- row identifiers (SpecView)
\* C28: for tasks with pairwise distinct ids that do not start with 'user:'
\* or 'cat:', the identifiers of the flattened rows are pairwise distinct
\* in every collapse, filter and window state.
C28_RowIdsUnique ==
  mounted =>
    \A i, j \in 1..Len(treeRows) :
      treeRows[i].id = treeRows[j].id => i = j

C28_Witness ==
  /\ mounted
  /\ Cardinality(UserRowIndexes) = 2
  /\ \E i \in 1..Len(treeRows) :
       treeRows[i].kind = "task" /\ treeRows[i].depth = TaskDepth + 2
  /\ \E i \in 1..Len(treeRows) : treeRows[i].id = "cat:__unassigned__:other"

\* ---- empty-state messages (SpecView)
\* C29: the chart shows 'No tasks scheduled yet' iff the flattened row list
\* is empty, that is iff the tree panel shows its own empty-state message;
\* so not right after mounting with tasks.
C29_ChartEmptyMessage ==
  mounted =>
    /\ chartEmptyMsg <=> Len(treeRows) = 0
    /\ chartEmptyMsg <=> treeEmptyMsg

\* ---- today marker (SpecToday)
\* C30: after every rebuild of the chart there is at most one today marker
\* in it, and one only if today lies within the start and end of the
\* rendered chart; no marker of an earlier build stays.
C30_TodayMarker ==
  mounted =>
    /\ todayLines <= 1
    /\ todayLines = 1 =>
         /\ ganttBuilt
         /\ gantt_start(ganttTasks) <= TodayDay
         /\ TodayDay <= gantt_end(ganttTasks)

C30_Witness ==
  /\ mounted /\ steps = 3 /\ ganttBuilt
  /\ todayLines = 1
  /\ viewFrom = Ymd(33)

====
